---- MODULE Spec2Model ----
(***************************************************************************)
(* The file indexer of Libraries/Native/src/indexer.rs: the process-wide   *)
(* INDEX (an RwLock around FileIndex), the rebuild start_indexing,         *)
(* refresh_index, clear_index and the read-only queries, as run by         *)
(* concurrent callers.  Every lock acquisition, every store write and      *)
(* every per-file worker step is one step of the model.                    *)
(***************************************************************************)
EXTENDS Integers, FiniteSets, Sequences, TLC

\* ------------------------------------------------------------------ bounds
MaxCalls == 3
MaxTime == 2
MaxLen == 3
MaxQuery == 2
MaxEntries == 2
MaxSymbols == 2
MaxAgain == 1
MaxLines == 2

\* the callers: two that rebuild, refresh and clear, one that queries
Mutators == {"m1", "m2"}
Readers == {"q1"}
Procs == Mutators \cup Readers
Times == 1..MaxTime

\* ------------------------------------------------------- the file system
NoProc == "nobody"
NoRoot == "None"
Roots == {"r1", "r2"}
RootArgs == Roots \cup {"gone"}
Paths == {"r1/a", "r1/ign", "r2/x", "r2/y"}

\* the regular files under a root directory, and those an ignore rule excludes
FilesUnder(r) ==
    CASE r = "r1" -> {"r1/a", "r1/ign"}
      [] r = "r2" -> {"r2/x", "r2/y"}
      [] OTHER -> {}

Ignored == {"r1/ign", "r2/y"}

\* metadata.len() of a file
FileSize(f) ==
    CASE f = "r1/a" -> 1
      [] f = "r1/ign" -> 2
      [] f = "r2/x" -> 4
      [] OTHER -> 8

\* Path::to_string_lossy: every ill-formed byte sequence of a name becomes
\* U+FFFD (written ? here); r2/x and r2/y are two names that are not UTF-8
\* and differ only in their ill-formed bytes.
to_string_lossy(f) ==
    CASE f = "r2/x" -> "r2/?"
      [] f = "r2/y" -> "r2/?"
      [] OTHER -> f

Keys == {to_string_lossy(f) : f \in Paths}

\* DashMap::iter visits the shards in order; the order of the keys in it
KeyOrder == <<"r1/a", "r1/ign", "r2/?">>

MutatingOps == {"start_indexing", "refresh_index", "clear_index"}
ScanOps == {"search_files", "search_symbols", "get_files_by_extension",
            "get_all_indexed_files"}
QueryOps == ScanOps \cup {"get_index_stats"}

VARIABLES
    root, entries, is_indexing, total_size, indexed_at,   \* FileIndex
    writer, readers,                                      \* the RwLock of INDEX
    exists,                                               \* directories on disk
    pc, op, root_path, respect_gitignore, res,            \* each caller
    todo, mid, seen, pos,
    gen, built, skipped, dropped, clean, wrote,           \* history of a call
    shown, ncalls,                                        \* history
    prev, since_prev, since_call,             \* history of get_all_indexed_files
    file, built_entry,                        \* one call of create_index_entry
    index, query_text, max_results, extension, matches    \* one call of a query

store == <<root, entries, is_indexing, total_size, indexed_at>>
lock == <<writer, readers>>
args == <<op, root_path, respect_gitignore>>
work == <<todo, mid>>
query == <<seen, pos>>
call == <<gen, built, skipped, dropped, clean, wrote>>
twice == <<prev, since_prev, since_call>>
indexer == <<store, lock, exists, pc, args, res, work, query, call, shown, ncalls,
             twice>>
pure == <<file, built_entry, index, query_text, max_results, extension, matches>>
vars == <<indexer, pure>>

NoRes == [tag |-> "none", val |-> 0]

\* no earlier get_all_indexed_files result, and one
NoPrev == [some |-> FALSE, val |-> {}]
Prev(v) == [some |-> TRUE, val |-> v]

\* Option<u32>::None for max_results, no query result, no file, no built entry
NoMax == [some |-> FALSE, val |-> 0]
NoMatches == [op |-> "none", out |-> <<>>]
NoFile == [name |-> <<>>]
NoEntry == [tag |-> "none"]
Result(t, v) == [tag |-> t, val |-> v]

EmptyMap == [k \in {} |-> 0]

\* an insert that keeps the entry a key already has
InsertIfAbsent(m, k, e) == [x \in DOMAIN m \cup {k} |-> IF x \in DOMAIN m THEN m[x] ELSE e]

\* DashMap::insert: the entry stored under a key is replaced wholesale
Insert(m, k, e) == [x \in DOMAIN m \cup {k} |-> IF x = k THEN e ELSE m[x]]

\* the entries a map holds
Range(m) == {m[k] : k \in DOMAIN m}

\* a clear() that removes nothing
clear_nothing(m) == m

\* DashMap::clear (lines 77, 321)
clear(m) == EmptyMap

\* sum of the size fields of the entries of a map
RECURSIVE SumSizes(_)
SumSizes(m) ==
    IF DOMAIN m = {} THEN 0
    ELSE LET k == CHOOSE x \in DOMAIN m : TRUE
         IN m[k].size + SumSizes([x \in DOMAIN m \ {k} |-> m[x]])

InitIndexer ==
    /\ root = NoRoot
    /\ entries = EmptyMap
    /\ is_indexing = FALSE
    /\ total_size = 0
    /\ indexed_at = 0
    /\ writer = NoProc
    /\ readers = {}
    /\ exists = Roots
    /\ pc = [p \in Procs |-> "idle"]
    /\ op = [p \in Procs |-> "none"]
    /\ root_path = [p \in Procs |-> NoRoot]
    /\ respect_gitignore = [p \in Procs |-> FALSE]
    /\ res = [p \in Procs |-> NoRes]
    /\ todo = [p \in Procs |-> {}]
    /\ mid = [p \in Procs |-> {}]
    /\ seen = [p \in Procs |-> {}]
    /\ pos = [p \in Procs |-> 0]
    /\ gen = [p \in Procs |-> 0]
    /\ built = [p \in Procs |-> {}]
    /\ skipped = [p \in Procs |-> {}]
    /\ dropped = [p \in Procs |-> {}]
    /\ clean = [p \in Procs |-> TRUE]
    /\ wrote = [p \in Procs |-> FALSE]
    /\ shown = [p \in Procs |-> {}]
    /\ ncalls = 0
    /\ prev = [p \in Procs |-> NoPrev]
    /\ since_prev = [p \in Procs |-> "nothing"]
    /\ since_call = [p \in Procs |-> "nothing"]

\* no pure function is under evaluation
InitPure ==
    /\ file = NoFile
    /\ built_entry = NoEntry
    /\ index = <<>>
    /\ query_text = <<>>
    /\ max_results = NoMax
    /\ extension = <<>>
    /\ matches = NoMatches

Init == InitIndexer /\ InitPure

Goto(p, l) == pc' = [pc EXCEPT ![p] = l]
Wrote(p) == wrote' = [wrote EXCEPT ![p] = TRUE]

\* ------------------------------------------------------------ the RwLock
\* parking_lot::RwLock.  write() takes the lock at once when it is free;
\* otherwise it takes the writer bit, which it can while no other writer has
\* it, and waits for the readers to leave.  read() is refused while the
\* writer bit is set, by a writer that holds the lock or by one that waits.
\* a read() that is let in while a writer holds the lock
ReadersAdmitted == TRUE

\* a read() that is let in only when nobody holds the lock at all
NobodyInside == writer = NoProc /\ readers = {}

CanLockShared == writer = NoProc
CanSetWriterBit == writer = NoProc

\* a write() that would not wait for the readers
ReadersIgnored == TRUE

ReadersGone == readers = {}

lock_shared(p) ==
    /\ CanLockShared
    /\ readers' = readers \cup {p}
    /\ UNCHANGED writer

\* a read guard that is never given back
unlock_shared_leak(p) ==
    /\ readers' = readers
    /\ UNCHANGED writer

unlock_shared(p) ==
    /\ readers' = readers \ {p}
    /\ UNCHANGED writer

\* write(): the writer bit is taken, and the caller goes on in the critical
\* section (l) or waits for the readers (w)
lock_exclusive(p, w, l) ==
    /\ CanSetWriterBit
    /\ writer' = p
    /\ UNCHANGED readers
    /\ Goto(p, IF ReadersGone THEN l ELSE w)

\* write() of a waiting writer returns: the last reader has left
lock_exclusive_wait(p, w, l) ==
    /\ pc[p] = w
    /\ writer = p
    /\ ReadersGone
    /\ Goto(p, l)
    /\ UNCHANGED lock

unlock_exclusive(p) ==
    /\ writer' = NoProc
    /\ UNCHANGED readers

\* ------------------------------------------------------------ the callers
\* a caller is inside an operation; at "ret" it has its result
InFlight(p) == pc[p] \notin {"idle", "ret"}
Mutating(p) == InFlight(p) /\ op[p] \in MutatingOps

\* a rebuild is past its step 2 (lines 76-80) and before its step 5 (112-113)
MidBuild(p) == pc[p] \in {"si_83", "si_100", "si_111", "si_111w", "si_112"}

\* what a call does to the results of get_all_indexed_files: a rebuild
\* repopulates the map, clear_index empties it, a query does nothing
Kind(o) ==
    IF o \in {"start_indexing", "refresh_index"} THEN "rebuild"
    ELSE IF o = "clear_index" THEN "clear"
    ELSE "nothing"

Worse(a, b) ==
    IF "rebuild" \in {a, b} THEN "rebuild"
    ELSE IF "clear" \in {a, b} THEN "clear"
    ELSE "nothing"

\* the worst of the calls that are running
Running ==
    IF \E x \in Procs : InFlight(x) /\ Kind(op[x]) = "rebuild" THEN "rebuild"
    ELSE IF \E x \in Procs : InFlight(x) /\ Kind(op[x]) = "clear" THEN "clear"
    ELSE "nothing"

\* a caller starts operation o: its invocation is the next one of the
\* history, and it is clean while no other mutating call overlaps it;
\* get_all_indexed_files can be called MaxAgain times more than the others,
\* so that it can be called again after the last mutating call
Call(p, o) ==
    /\ pc[p] \in {"idle", "ret"}
    /\ p \in (IF o \in MutatingOps THEN Mutators ELSE Readers)
    /\ ncalls < MaxCalls + (IF o = "get_all_indexed_files" THEN MaxAgain ELSE 0)
    /\ op' = [op EXCEPT ![p] = o]
    /\ res' = [res EXCEPT ![p] = NoRes]
    /\ ncalls' = ncalls + 1
    /\ gen' = [gen EXCEPT ![p] = IF o \in MutatingOps THEN ncalls + 1 ELSE 0]
    /\ clean' = IF o \in MutatingOps
                THEN [q \in Procs |->
                        IF q = p THEN \A x \in Procs \ {p} : ~Mutating(x)
                        ELSE IF Mutating(q) THEN FALSE ELSE clean[q]]
                ELSE clean
    /\ prev' = prev
    /\ since_prev' = [q \in Procs |->
                        IF prev[q].some THEN Worse(since_prev[q], Kind(o))
                        ELSE since_prev[q]]
    /\ since_call' = [q \in Procs |->
                        IF q = p /\ o = "get_all_indexed_files" THEN Running
                        ELSE IF InFlight(q) /\ op[q] = "get_all_indexed_files"
                             THEN Worse(since_call[q], Kind(o))
                             ELSE since_call[q]]
    /\ UNCHANGED <<store, lock, exists, work, query, built, skipped, dropped,
                   wrote, shown>>

\* the operation returns r to its caller; its locals go out of scope
Finish(p, r) ==
    /\ Goto(p, "ret")
    /\ res' = [res EXCEPT ![p] = r]
    /\ op' = [op EXCEPT ![p] = "none"]
    /\ root_path' = [root_path EXCEPT ![p] = NoRoot]
    /\ respect_gitignore' = [respect_gitignore EXCEPT ![p] = FALSE]
    /\ gen' = [gen EXCEPT ![p] = 0]
    /\ built' = [built EXCEPT ![p] = {}]
    /\ skipped' = [skipped EXCEPT ![p] = {}]
    /\ dropped' = [dropped EXCEPT ![p] = {}]
    /\ clean' = [clean EXCEPT ![p] = TRUE]
    /\ wrote' = [wrote EXCEPT ![p] = FALSE]

\* a directory is removed from the disk behind the indexer's back
RemoveRoot(r) ==
    /\ r \in exists
    /\ exists' = exists \ {r}
    /\ UNCHANGED <<store, lock, pc, args, res, work, query, call, shown, ncalls>>
    /\ UNCHANGED <<twice, pure>>

\* --------------------------------------------------------- start_indexing
start_indexing_call(p, r, g) ==
    /\ Call(p, "start_indexing")
    /\ root_path' = [root_path EXCEPT ![p] = r]
    /\ respect_gitignore' = [respect_gitignore EXCEPT ![p] = g]
    /\ Goto(p, "si_70")
    /\ UNCHANGED pure

\* an exists() that finds every root
AnyRootExists(r) == TRUE

\* line 70: root.exists()
RootExists(r) == r \in exists

\* lines 70-72: NotFound for a root that does not exist, the only failure
\* path of a rebuild
start_indexing_exists(p) ==
    /\ pc[p] = "si_70"
    /\ IF RootExists(root_path[p])
       THEN /\ Goto(p, "si_75")
            /\ UNCHANGED <<args, res, call>>
       ELSE Finish(p, Result("NotFound", 0))
    /\ UNCHANGED <<store, lock, exists, work, query, shown, ncalls>>
    /\ UNCHANGED <<twice, pure>>

\* line 75: INDEX.write()
start_indexing_write75(p) ==
    /\ pc[p] = "si_75"
    /\ lock_exclusive(p, "si_75w", "si_76")
    /\ UNCHANGED <<store, exists, args, res, work, query, call, shown, ncalls>>
    /\ UNCHANGED <<twice, pure>>

start_indexing_locked75(p) ==
    /\ lock_exclusive_wait(p, "si_75w", "si_76")
    /\ UNCHANGED <<store, exists, args, res, work, query, call, shown, ncalls>>
    /\ UNCHANGED <<twice, pure>>

\* a step 2 that also resets the build stamp
start_indexing_begin_unstamped(p) ==
    /\ pc[p] = "si_76"
    /\ root' = root_path[p]
    /\ entries' = clear(entries)
    /\ is_indexing' = TRUE
    /\ total_size' = 0
    /\ indexed_at' = 0
    /\ unlock_exclusive(p)
    /\ Goto(p, "si_83")
    /\ Wrote(p)
    /\ dropped' = [dropped EXCEPT ![p] = DOMAIN entries]
    /\ UNCHANGED <<exists, args, res, work, query, gen, built,
                   skipped, clean, shown, ncalls>>
    /\ UNCHANGED <<twice, pure>>

\* lines 76-80, under the write guard: the root is bound, the map cleared,
\* the flag raised, the counter reset, and the guard dropped
start_indexing_begin(p) ==
    /\ pc[p] = "si_76"
    /\ root' = root_path[p]
    /\ entries' = clear(entries)
    /\ is_indexing' = TRUE
    /\ total_size' = 0
    /\ unlock_exclusive(p)
    /\ Goto(p, "si_83")
    /\ Wrote(p)
    /\ dropped' = [dropped EXCEPT ![p] = DOMAIN entries]
    /\ UNCHANGED <<indexed_at, exists, args, res, work, query, gen, built,
                   skipped, clean, shown, ncalls>>
    /\ UNCHANGED <<twice, pure>>

\* lines 83-95: the regular files the walker yields under root; an ignore
\* rule applies only when respect_gitignore is set, and a root that is gone
\* yields walk errors only, which filter_map drops
Walk(r, g) ==
    IF r \in exists
    THEN {f \in FilesUnder(r) : g => f \notin Ignored}
    ELSE {}

\* a per-file phase that runs without the read guard
start_indexing_unguarded(p) ==
    /\ pc[p] = "si_83"
    /\ todo' = [todo EXCEPT ![p] = Walk(root_path[p], respect_gitignore[p])]
    /\ Goto(p, "si_100")
    /\ UNCHANGED <<store, lock, exists, args, res, mid, query, call, shown, ncalls>>
    /\ UNCHANGED <<twice, pure>>

\* lines 83-98: the paths are collected, then INDEX.read(), held over the
\* whole parallel loop
start_indexing_read98(p) ==
    /\ pc[p] = "si_83"
    /\ todo' = [todo EXCEPT ![p] = Walk(root_path[p], respect_gitignore[p])]
    /\ lock_shared(p)
    /\ Goto(p, "si_100")
    /\ UNCHANGED <<store, exists, args, res, mid, query, call, shown, ncalls>>
    /\ UNCHANGED <<twice, pure>>

\* an entry whose path field is the path as the file system has it
create_index_entry_raw(f, g) ==
    [path |-> f, size |-> FileSize(f), file |-> f, gen |-> g]

\* lines 122-142: the entry built for a file by invocation g
create_index_entry(f, g) ==
    [path |-> to_string_lossy(f), size |-> FileSize(f), file |-> f, gen |-> g]

\* a fetch_add that adds nothing
FetchNothing(t, n) == t

\* line 102: fetch_add on the byte counter
FetchAdd(t, n) == t + n

\* lines 101-102, one rayon worker on one path: create_index_entry fails when
\* fs::metadata does (the path is skipped), else the size is added
start_indexing_build(p, f, ok) ==
    /\ pc[p] = "si_100"
    /\ f \in todo[p]
    /\ todo' = [todo EXCEPT ![p] = @ \ {f}]
    /\ IF ok
       THEN /\ total_size' = FetchAdd(total_size, create_index_entry(f, gen[p]).size)
            /\ mid' = [mid EXCEPT ![p] = @ \cup {f}]
            /\ built' = [built EXCEPT ![p] = @ \cup {f}]
            /\ Wrote(p)
            /\ UNCHANGED skipped
       ELSE /\ skipped' = [skipped EXCEPT ![p] = @ \cup {f}]
            /\ UNCHANGED <<total_size, mid, built, wrote>>
    /\ UNCHANGED <<root, entries, is_indexing, indexed_at, lock, exists, pc,
                   args, res, query, gen, dropped, clean, shown, ncalls>>
    /\ UNCHANGED <<twice, pure>>

\* line 103, the same worker: the entry goes into the map under the path's
\* lossy string
start_indexing_insert(p, f) ==
    /\ pc[p] = "si_100"
    /\ f \in mid[p]
    /\ mid' = [mid EXCEPT ![p] = @ \ {f}]
    /\ entries' = Insert(entries, to_string_lossy(f), create_index_entry(f, gen[p]))
    /\ Wrote(p)
    /\ UNCHANGED <<root, is_indexing, total_size, indexed_at, lock, exists, pc,
                   args, res, todo, query, gen, built, skipped, dropped, clean,
                   shown, ncalls>>
    /\ UNCHANGED <<twice, pure>>

\* a for_each that returns while workers still hold entries to insert
start_indexing_drop_early(p) ==
    /\ pc[p] = "si_100"
    /\ todo[p] = {}
    /\ unlock_shared(p)
    /\ Goto(p, "si_111")
    /\ UNCHANGED <<store, exists, args, res, work, query, call, shown, ncalls>>
    /\ UNCHANGED <<twice, pure>>

\* lines 105-107: for_each has joined every worker; the read guard is dropped
start_indexing_drop107(p) ==
    /\ pc[p] = "si_100"
    /\ todo[p] = {}
    /\ mid[p] = {}
    /\ unlock_shared(p)
    /\ Goto(p, "si_111")
    /\ UNCHANGED <<store, exists, args, res, work, query, call, shown, ncalls>>
    /\ UNCHANGED <<twice, pure>>

\* line 111: INDEX.write()
start_indexing_write111(p) ==
    /\ pc[p] = "si_111"
    /\ lock_exclusive(p, "si_111w", "si_112")
    /\ UNCHANGED <<store, exists, args, res, work, query, call, shown, ncalls>>
    /\ UNCHANGED <<twice, pure>>

start_indexing_locked111(p) ==
    /\ lock_exclusive_wait(p, "si_111w", "si_112")
    /\ UNCHANGED <<store, exists, args, res, work, query, call, shown, ncalls>>
    /\ UNCHANGED <<twice, pure>>

\* lines 112-114, under the write guard: the flag is lowered, the build
\* stamped with the current time, and the guard dropped
start_indexing_end(p, t) ==
    /\ pc[p] = "si_112"
    /\ is_indexing' = FALSE
    /\ indexed_at' = t
    /\ unlock_exclusive(p)
    /\ Goto(p, "si_116")
    /\ Wrote(p)
    /\ shown' = [shown EXCEPT ![p] = {}]
    /\ UNCHANGED <<root, entries, total_size, exists, args, res, work, query,
                   gen, built, skipped, dropped, clean, ncalls>>
    /\ UNCHANGED <<twice, pure>>

\* lines 116-120: INDEX.read() for the log line, the guard dropped on
\* return; Ok(()) to the caller or back into refresh_index
start_indexing_ok(p) ==
    /\ pc[p] = "si_116"
    /\ CanLockShared
    /\ IF op[p] = "refresh_index"
       THEN /\ Goto(p, "rf_345")
            /\ UNCHANGED <<args, res, call>>
       ELSE Finish(p, Result("Ok", 0))
    /\ UNCHANGED <<store, lock, exists, work, query, shown, ncalls>>
    /\ UNCHANGED <<twice, pure>>

\* ---------------------------------------------------------- refresh_index
\* a len() that counts one entry too many
entries_len_off(m) == Cardinality(DOMAIN m) + 1

\* DashMap::len (lines 116, 190, 346): the number of keys
entries_len(m) == Cardinality(DOMAIN m)

\* a root option that is never None
NeverNone(r) == FALSE

\* lines 335-338: index.root is None
IsNone(r) == r = NoRoot

refresh_index_call(p) ==
    /\ Call(p, "refresh_index")
    /\ Goto(p, "rf_334")
    /\ UNCHANGED <<root_path, respect_gitignore>>
    /\ UNCHANGED pure

\* a refresh that rebuilds without the ignore rules
refresh_index_unfiltered(p) ==
    /\ pc[p] = "rf_334"
    /\ CanLockShared
    /\ IF IsNone(root)
       THEN Finish(p, Result("Config", 0))
       ELSE /\ root_path' = [root_path EXCEPT ![p] = to_string_lossy(root)]
            /\ respect_gitignore' = [respect_gitignore EXCEPT ![p] = FALSE]
            /\ Goto(p, "si_70")
            /\ UNCHANGED <<op, res, call>>
    /\ UNCHANGED <<store, lock, exists, work, query, shown, ncalls>>
    /\ UNCHANGED <<twice, pure>>

\* lines 334-343: under INDEX.read(), the stored root or the Config error;
\* the guard is dropped either way, and start_indexing(root, true) entered.
\* The stored root was made from a String (line 68), so it is UTF-8 and
\* to_string_lossy gives it back as it is
refresh_index_root(p) ==
    /\ pc[p] = "rf_334"
    /\ CanLockShared
    /\ IF IsNone(root)
       THEN Finish(p, Result("Config", 0))
       ELSE /\ root_path' = [root_path EXCEPT ![p] = to_string_lossy(root)]
            /\ respect_gitignore' = [respect_gitignore EXCEPT ![p] = TRUE]
            /\ Goto(p, "si_70")
            /\ UNCHANGED <<op, res, call>>
    /\ UNCHANGED <<store, lock, exists, work, query, shown, ncalls>>
    /\ UNCHANGED <<twice, pure>>

\* lines 345-346: under INDEX.read(), Ok(index.entries.len())
refresh_index_len(p) ==
    /\ pc[p] = "rf_345"
    /\ CanLockShared
    /\ Finish(p, Result("Ok", entries_len(entries)))
    /\ UNCHANGED <<store, lock, exists, work, query, shown, ncalls>>
    /\ UNCHANGED <<twice, pure>>

\* ------------------------------------------------------------ clear_index
clear_index_call(p) ==
    /\ Call(p, "clear_index")
    /\ Goto(p, "ci_320")
    /\ UNCHANGED <<root_path, respect_gitignore>>
    /\ UNCHANGED pure

\* line 320: INDEX.write()
clear_index_write320(p) ==
    /\ pc[p] = "ci_320"
    /\ lock_exclusive(p, "ci_320w", "ci_321")
    /\ UNCHANGED <<store, exists, args, res, work, query, call, shown, ncalls>>
    /\ UNCHANGED <<twice, pure>>

clear_index_locked320(p) ==
    /\ lock_exclusive_wait(p, "ci_320w", "ci_321")
    /\ UNCHANGED <<store, exists, args, res, work, query, call, shown, ncalls>>
    /\ UNCHANGED <<twice, pure>>

\* a clear_index that also lowers the is_indexing flag
clear_index_lowering(p) ==
    /\ pc[p] = "ci_321"
    /\ entries' = clear(entries)
    /\ root' = NoRoot
    /\ total_size' = 0
    /\ indexed_at' = 0
    /\ is_indexing' = FALSE
    /\ unlock_exclusive(p)
    /\ Finish(p, Result("Ok", 0))
    /\ UNCHANGED <<exists, work, query, shown, ncalls>>
    /\ UNCHANGED <<twice, pure>>

\* lines 321-329, under the write guard: the map is emptied, the root unset,
\* the counter and the stamp reset, the guard dropped, Ok(())
clear_index_clear(p) ==
    /\ pc[p] = "ci_321"
    /\ entries' = clear(entries)
    /\ root' = NoRoot
    /\ total_size' = 0
    /\ indexed_at' = 0
    /\ unlock_exclusive(p)
    /\ Finish(p, Result("Ok", 0))
    /\ UNCHANGED <<is_indexing, exists, work, query, shown, ncalls>>
    /\ UNCHANGED <<twice, pure>>

\* ------------------------------------------------------------ the queries
query_call(p, o) ==
    /\ Call(p, o)
    /\ Goto(p, "q_read")
    /\ UNCHANGED <<root_path, respect_gitignore>>
    /\ UNCHANGED pure

\* an INDEX.read() that takes the entries out of the map
query_read_clearing(p) ==
    /\ pc[p] = "q_read"
    /\ lock_shared(p)
    /\ Goto(p, IF op[p] = "get_index_stats" THEN "q_190" ELSE "q_iter")
    /\ entries' = clear(entries)
    /\ UNCHANGED <<root, is_indexing, total_size, indexed_at>>
    /\ UNCHANGED <<exists, args, res, work, query, call, shown, ncalls>>
    /\ UNCHANGED <<twice, pure>>

\* lines 187, 203, 260, 294, 304: INDEX.read()
query_read(p) ==
    /\ pc[p] = "q_read"
    /\ lock_shared(p)
    /\ Goto(p, IF op[p] = "get_index_stats" THEN "q_190" ELSE "q_iter")
    /\ UNCHANGED <<store, exists, args, res, work, query, call, shown, ncalls>>
    /\ UNCHANGED <<twice, pure>>

\* an iteration that sets the size of the entry it visits to 0
query_iter_patching(p) ==
    /\ pc[p] = "q_iter"
    /\ pos[p] < Len(KeyOrder)
    /\ LET k == KeyOrder[pos[p] + 1]
       IN /\ seen' = [seen EXCEPT ![p] =
                        IF k \in DOMAIN entries THEN @ \cup {entries[k]} ELSE @]
          /\ entries' = [x \in DOMAIN entries |->
                           IF x = k THEN [entries[x] EXCEPT !.size = 0] ELSE entries[x]]
    /\ pos' = [pos EXCEPT ![p] = @ + 1]
    /\ UNCHANGED <<root, is_indexing, total_size, indexed_at>>
    /\ UNCHANGED <<lock, exists, pc, args, res, work, call, shown, ncalls>>
    /\ UNCHANGED <<twice, pure>>

\* index.entries.iter(): the next key of the iteration is visited, and its
\* entry, if the map holds one now, is taken
query_iter(p) ==
    /\ pc[p] = "q_iter"
    /\ pos[p] < Len(KeyOrder)
    /\ LET k == KeyOrder[pos[p] + 1]
       IN seen' = [seen EXCEPT ![p] =
                     IF k \in DOMAIN entries THEN @ \cup {entries[k]} ELSE @]
    /\ pos' = [pos EXCEPT ![p] = @ + 1]
    /\ UNCHANGED <<store, lock, exists, pc, args, res, work, call, shown, ncalls>>
    /\ UNCHANGED <<twice, pure>>

\* the iteration is over: seen[p] is what the query has to return
Collected(p) == pc[p] = "q_iter" /\ pos[p] = Len(KeyOrder)

\* the entries seen[p] go to the caller (filtered, scored, sorted and cut as
\* the query asks) and the guard is dropped
query_collect(p) ==
    /\ Collected(p)
    /\ Finish(p, Result("Ok", Cardinality(seen[p])))
    /\ seen' = [seen EXCEPT ![p] = {}]
    /\ pos' = [pos EXCEPT ![p] = 0]
    /\ unlock_shared(p)
    /\ shown' = [b \in Procs |-> IF MidBuild(b) THEN shown[b] \cup seen[p] ELSE shown[b]]
    /\ IF op[p] = "get_all_indexed_files"
       THEN /\ prev' = [prev EXCEPT ![p] = Prev(seen[p])]
            /\ since_prev' = [since_prev EXCEPT ![p] = since_call[p]]
            /\ since_call' = [since_call EXCEPT ![p] = "nothing"]
       ELSE UNCHANGED twice
    /\ UNCHANGED <<store, exists, work, ncalls>>
    /\ UNCHANGED pure

\* line 190 of get_index_stats: total_files is entries.len()
get_index_stats_len(p) ==
    /\ pc[p] = "q_190"
    /\ pos' = [pos EXCEPT ![p] = entries_len(entries)]
    /\ Goto(p, "q_191")
    /\ UNCHANGED <<store, lock, exists, args, res, work, seen, call, shown, ncalls>>
    /\ UNCHANGED <<twice, pure>>

\* lines 189-197: the IndexStats that get_index_stats returns from "q_191"
IndexStats(p) ==
    [total_files |-> pos[p], total_size |-> total_size,
     indexed_at |-> indexed_at, root_path |-> root, is_indexing |-> is_indexing]

\* lines 191-198 of get_index_stats: the other fields are read, IndexStats(p)
\* goes to the caller and the guard is dropped
get_index_stats_rest(p) ==
    /\ pc[p] = "q_191"
    /\ Finish(p, Result("Ok", IndexStats(p).total_files))
    /\ pos' = [pos EXCEPT ![p] = 0]
    /\ unlock_shared(p)
    /\ UNCHANGED <<store, exists, work, seen, shown, ncalls>>
    /\ UNCHANGED <<twice, pure>>

\* ---------------------------------------------------------------- strings
\* a string is the sequence of its chars; names and queries are drawn from a
\* small alphabet with one letter in both cases and the dot
Chars == {"c", "C", "h", "."}
WordChars == {"c", "C", "h"}
Str(A, n) == UNION {[1..k -> A] : k \in 0..n}

\* char::to_lowercase on the alphabet
LowerChar(c) == IF c = "C" THEN "c" ELSE c

\* str::to_lowercase
to_lowercase(s) == [i \in 1..Len(s) |-> LowerChar(s[i])]

\* a starts_with that the empty prefix does not satisfy
starts_with_nonempty(s, q) == q # <<>> /\ Len(q) <= Len(s) /\ SubSeq(s, 1, Len(q)) = q

\* str::starts_with
starts_with(s, q) == Len(q) <= Len(s) /\ SubSeq(s, 1, Len(q)) = q

\* str::contains
contains(s, q) == \E i \in 0..(Len(s) - Len(q)) : SubSeq(s, i + 1, i + Len(q)) = q

\* a fuzzy_match that wants the pattern's chars next to each other
fuzzy_match_contiguous(text, pattern) == contains(text, pattern)

\* lines 244-252 of fuzzy_match: the loop over text.chars() from char i on,
\* with pattern char j the one peek() shows; the value is the pattern char
\* peek() shows when the loop ends
RECURSIVE fuzzy_loop(_, _, _, _)
fuzzy_loop(text, i, pattern, j) ==
    IF i > Len(text) THEN j
    ELSE IF j <= Len(pattern)
         THEN fuzzy_loop(text, i + 1, pattern, IF text[i] = pattern[j] THEN j + 1 ELSE j)
         ELSE j

\* lines 241-255: pattern_chars.peek().is_none() after the loop
fuzzy_match(text, pattern) == fuzzy_loop(text, 1, pattern, 1) > Len(pattern)

\* ------------------------------------------------------------ one file
\* a file name as the file system has it: its chars, or a byte that is not
\* UTF-8 (written ~); no file is named "", "." or ".."
OsChars == Chars \cup {"~"}
FileNames == Str(OsChars, MaxLen) \ {<<>>, <<".">>, <<".", ".">>}

\* OsStr::to_string_lossy: an ill-formed byte becomes U+FFFD (written ?)
lossy(s) == [i \in 1..Len(s) |-> IF s[i] = "~" THEN "?" ELSE s[i]]

None == [some |-> FALSE, val |-> <<>>]
Some(v) == [some |-> TRUE, val |-> v]

\* the place of the last dot of a name, 0 when it has none
LastDot(s) ==
    IF \E i \in 1..Len(s) : s[i] = "."
    THEN CHOOSE i \in 1..Len(s) : s[i] = "." /\ \A k \in (i + 1)..Len(s) : s[k] # "."
    ELSE 0

\* an extension that is whatever follows the last dot
extension_after_last_dot(name) ==
    IF LastDot(name) = 0 THEN None
    ELSE Some(SubSeq(name, LastDot(name) + 1, Len(name)))

\* Path::extension (line 137): the name is split at its last dot; there is
\* no extension when it has no dot, or when nothing stands before that dot
path_extension(name) ==
    IF name = <<".", ".">> \/ LastDot(name) <= 1 THEN None
    ELSE Some(SubSeq(name, LastDot(name) + 1, Len(name)))

\* line 137: Option::map with to_string_lossy
map_to_string_lossy(o) == IF o.some THEN Some(lossy(o.val)) ELSE None

\* line 152
code_extensions ==
    { <<"j", "s">>, <<"t", "s">>, <<"p", "y">>, <<"r", "s">>, <<"g", "o">>,
      <<"j", "a", "v", "a">>, <<"c">>, <<"c", "p", "p">>, <<"h">>,
      <<"h", "p", "p">>, <<"r", "b">>, <<"p", "h", "p">> }

\* an extract_symbols that scans every file
scan_any(ext) == TRUE

\* line 154: code_extensions.contains(&ext)
is_code(ext) == ext \in code_extensions

\* lines 144-182: the names the patterns capture (f.defs) when the lowercased
\* extension is a code extension and read_to_string succeeds (f.text)
extract_symbols(f) ==
    LET e == map_to_string_lossy(path_extension(f.name))
        ext == IF e.some THEN to_lowercase(e.val) ELSE <<>>
    IN IF ~is_code(ext) THEN <<>>
       ELSE IF f.text THEN f.defs
       ELSE <<>>

\* the directory the files are in
Dir == <<"r", "/">>

\* lines 132-141: the IndexEntry of a file whose metadata was read
IndexEntry(f) ==
    [path |-> lossy(Dir \o f.name),
     name |-> lossy(f.name),
     extension |-> map_to_string_lossy(path_extension(f.name)),
     size |-> f.len,
     modified |-> IF f.mtime.ok THEN f.mtime.secs ELSE 0,
     symbols |-> extract_symbols(f)]

\* lines 122-142 on a file given by what the file system says of it:
\* fs::metadata fails (f.metadata false) or the entry is built
create_index_entry_of(f) ==
    IF f.metadata THEN [tag |-> "Ok", entry |-> IndexEntry(f)]
    ELSE [tag |-> "Err"]

\* the files create_index_entry is applied to
Files ==
    [name : FileNames, metadata : BOOLEAN, len : {3},
     mtime : {[ok |-> FALSE, secs |-> 0], [ok |-> TRUE, secs |-> 7]},
     text : BOOLEAN, defs : {<<>>, << <<"h">>, <<"C">> >>}]

\* create_index_entry(path) is called for the file
create_index_entry_apply ==
    /\ file # NoFile
    /\ built_entry = NoEntry
    /\ built_entry' = create_index_entry_of(file)
    /\ UNCHANGED <<indexer, file, index, query_text, max_results, extension, matches>>

\* ------------------------------------------------ the symbol patterns
\* the text of a file is the sequence of its tokens: a word (a longest run of
\* \w chars), a space "sp" or a line end "nl"
IsSpace(t) == t \in {"sp", "nl"}

\* lines 161-167: the seven patterns in their order, each "(?m)^" followed by
\* optional words, each with \s+ behind it, by a keyword, by \s+ and by the
\* captured (\w+)
patterns ==
    << [opt |-> <<"export", "async">>, key |-> "function"],
       [opt |-> <<"export">>, key |-> "class"],
       [opt |-> <<>>, key |-> "def"],
       [opt |-> <<>>, key |-> "class"],
       [opt |-> <<>>, key |-> "fn"],
       [opt |-> <<>>, key |-> "struct"],
       [opt |-> <<>>, key |-> "impl"] >>

\* (?m)^ : the start of the text or of a line
LineStart(t, i) == i = 1 \/ t[i - 1] = "nl"

\* \s+ from token j on: the place of the first token behind the run
SkipSpace(t, j) ==
    CHOOSE k \in j..(Len(t) + 1) :
        /\ \A m \in j..(k - 1) : IsSpace(t[m])
        /\ k <= Len(t) => ~IsSpace(t[k])

\* (?:word\s+)? for each optional word in turn, from token j on
RECURSIVE SkipOpts(_, _, _)
SkipOpts(t, j, opts) ==
    IF opts = <<>> THEN j
    ELSE IF j + 1 <= Len(t) /\ t[j] = Head(opts) /\ IsSpace(t[j + 1])
         THEN SkipOpts(t, SkipSpace(t, j + 1), Tail(opts))
         ELSE SkipOpts(t, j, Tail(opts))

\* the pattern matched at token i: the place of the captured word, or 0
Capture(t, i, pat) ==
    LET j == SkipOpts(t, i, pat.opt)
    IN IF j + 1 <= Len(t) /\ t[j] = pat.key /\ IsSpace(t[j + 1])
          /\ SkipSpace(t, j + 1) <= Len(t)
       THEN SkipSpace(t, j + 1)
       ELSE 0

\* lines 171-175: re.captures_iter(&content) from token i on, the matches
\* from left to right, each search going on behind the match before
RECURSIVE captures_iter(_, _, _)
captures_iter(t, i, pat) ==
    IF i > Len(t) THEN <<>>
    ELSE IF LineStart(t, i) /\ Capture(t, i, pat) # 0
         THEN <<t[Capture(t, i, pat)]>> \o captures_iter(t, Capture(t, i, pat) + 1, pat)
         ELSE captures_iter(t, i + 1, pat)

\* lines 169-178: the captures of pattern k, then of the patterns behind it
RECURSIVE push_captures(_, _)
push_captures(t, k) ==
    IF k > Len(patterns) THEN <<>>
    ELSE captures_iter(t, 1, patterns[k]) \o push_captures(t, k + 1)

\* the lines a source file is made of here: declarations as the patterns
\* expect them, an indented one, a Rust one behind pub, a Go one, and a
\* keyword whose name stands on the next line
SampleLines ==
    { <<"function", "sp", "foo">>,
      <<"export", "sp", "function", "sp", "foo">>,
      <<"export", "sp", "async", "sp", "sp", "function", "sp", "bar">>,
      <<"async", "sp", "function", "sp", "foo">>,
      <<"class", "sp", "Foo">>,
      <<"export", "sp", "class", "sp", "Foo">>,
      <<"def", "sp", "foo">>,
      <<"sp", "sp", "def", "sp", "foo">>,
      <<"fn", "sp", "foo">>,
      <<"pub", "sp", "fn", "sp", "foo">>,
      <<"func", "sp", "foo">>,
      <<"struct", "sp", "Foo">>,
      <<"impl", "sp", "Foo">>,
      <<"function">>,
      <<"bar">> }

\* the text made of lines ls
RECURSIVE Text(_)
Text(ls) ==
    IF ls = <<>> THEN <<>>
    ELSE IF Len(ls) = 1 THEN ls[1]
    ELSE ls[1] \o <<"nl">> \o Text(Tail(ls))

Texts == {Text(ls) : ls \in UNION {[1..k -> SampleLines] : k \in 0..MaxLines}}

\* a readable source file with an allow-listed extension and the text c:
\* its defs are what the patterns capture in c
SourceFile(n, c) ==
    [name |-> n, metadata |-> TRUE, len |-> 3, mtime |-> [ok |-> TRUE, secs |-> 7],
     text |-> TRUE, defs |-> push_captures(c, 1), content |-> c]

SourceFiles == {SourceFile(n, c) : n \in {<<"h", ".", "c">>, <<"h", ".", "C">>}, c \in Texts}

\* ------------------------------------------------- the queries' results
\* scores are in tenths: 10 is 1.0, 9 is 0.9, 7 is 0.7, 5 is 0.5
\* line 204, 261: max_results.unwrap_or(50)
DefaultMax == 50
unwrap_or(m, d) == IF m.some THEN m.val ELSE d

\* a score that looks for the query inside the name before it looks at the
\* start of the name
score_contains_first(name_lower, query_lower) ==
    IF name_lower = query_lower THEN 10
    ELSE IF contains(name_lower, query_lower) THEN 7
    ELSE IF starts_with(name_lower, query_lower) THEN 9
    ELSE IF fuzzy_match(name_lower, query_lower) THEN 5
    ELSE 0

\* lines 213-223 of search_files: the score of a name, 0 for return None
score(name_lower, query_lower) ==
    IF name_lower = query_lower THEN 10
    ELSE IF starts_with(name_lower, query_lower) THEN 9
    ELSE IF contains(name_lower, query_lower) THEN 7
    ELSE IF fuzzy_match(name_lower, query_lower) THEN 5
    ELSE 0

\* lines 225-230, 273-278
FileMatch(e, n, sc) ==
    [path |-> e.path, name |-> n, score |-> sc, extension |-> e.extension]

\* Iterator::filter_map(..).collect() on the closure's results rs, each None
\* or Some(match), in the order of the iteration
filter_map(rs) ==
    LET kept == SelectSeq(rs, LAMBDA r : r.some)
    IN [i \in 1..Len(kept) |-> kept[i].val]

\* a sort that leaves the matches as they were collected
sort_nothing(ms) == ms

\* lines 235, 285: sort_by on b.score against a.score, a stable sort: a
\* match goes behind every match whose score is not lower than its own
RECURSIVE sort_by(_)
sort_by(ms) ==
    IF ms = <<>> THEN <<>>
    ELSE LET done == sort_by(SubSeq(ms, 1, Len(ms) - 1))
             m == ms[Len(ms)]
             k == Cardinality({i \in 1..Len(done) : done[i].score >= m.score})
         IN SubSeq(done, 1, k) \o <<m>> \o SubSeq(done, k + 1, Len(done))

\* lines 236, 286: Vec::truncate
truncate(ms, max) == IF Len(ms) > max THEN SubSeq(ms, 1, max) ELSE ms

\* lines 202-239: the index is given in the order entries.iter() visits it
search_files(ix, q, maxr) ==
    LET query_lower == to_lowercase(q)
        F(e) == LET sc == score(to_lowercase(e.name), query_lower)
                IN IF sc = 0 THEN None ELSE Some(FileMatch(e, e.name, sc))
    IN truncate(sort_by(filter_map([i \in 1..Len(ix) |-> F(ix[i])])),
                unwrap_or(maxr, DefaultMax))

\* a find that prefers a symbol equal to the query
find_exact_first(syms, query_lower) ==
    IF \E i \in 1..Len(syms) : to_lowercase(syms[i]) = query_lower
    THEN Some(syms[CHOOSE i \in 1..Len(syms) : to_lowercase(syms[i]) = query_lower])
    ELSE IF \E i \in 1..Len(syms) : contains(to_lowercase(syms[i]), query_lower)
    THEN Some(syms[CHOOSE i \in 1..Len(syms) :
                     /\ contains(to_lowercase(syms[i]), query_lower)
                     /\ \A k \in 1..(i - 1) : ~contains(to_lowercase(syms[k]), query_lower)])
    ELSE None

\* lines 269-270: e.symbols.iter().find(..), the first symbol whose lowercase
\* form contains the query
find(syms, query_lower) ==
    IF \E i \in 1..Len(syms) : contains(to_lowercase(syms[i]), query_lower)
    THEN Some(syms[CHOOSE i \in 1..Len(syms) :
                     /\ contains(to_lowercase(syms[i]), query_lower)
                     /\ \A k \in 1..(i - 1) : ~contains(to_lowercase(syms[k]), query_lower)])
    ELSE None

\* lines 259-289
search_symbols(ix, q, maxr) ==
    LET query_lower == to_lowercase(q)
        F(e) == LET matching_symbol == find(e.symbols, query_lower)
                IN IF matching_symbol.some
                   THEN Some(FileMatch(e, matching_symbol.val,
                               IF to_lowercase(matching_symbol.val) = query_lower
                               THEN 10 ELSE 7))
                   ELSE None
    IN truncate(sort_by(filter_map([i \in 1..Len(ix) |-> F(ix[i])])),
                unwrap_or(maxr, DefaultMax))

\* an extension test that compares the cases too
same_extension_exact(ext, x) == ext.some /\ ext.val = x

\* lines 308-312: the entry has an extension and its lowercase form is the
\* lowercase form of the argument
same_extension(ext, x) == ext.some /\ to_lowercase(ext.val) = to_lowercase(x)

\* lines 303-315
get_files_by_extension(ix, x) ==
    filter_map([i \in 1..Len(ix) |->
                  IF same_extension(ix[i].extension, x) THEN Some(ix[i]) ELSE None])

\* --------------------------------------------------- one call of a query
\* a file that is indexed: its metadata and its contents can be read
SearchFile(n, d) ==
    [name |-> n, metadata |-> TRUE, len |-> 3, mtime |-> [ok |-> TRUE, secs |-> 7],
     text |-> TRUE, defs |-> d]

\* the names a symbol pattern can capture, and the symbols of a file
SymbolNames == {<<"c">>, <<"C">>, <<"h">>, <<"c", "h">>, <<"h", "C">>}
SymbolLists == UNION {[1..k -> SymbolNames] : k \in 0..MaxSymbols}

\* files whose names score differently and tie, some with symbols
SampleFiles ==
    { SearchFile(<<"c">>, <<>>), SearchFile(<<"C">>, <<>>),
      SearchFile(<<"h", "c">>, <<>>),
      SearchFile(<<"c", ".", "h">>, << <<"c", "h">>, <<"C">> >>),
      SearchFile(<<"h", ".", "c">>, << <<"c">> >>) }

\* the names of the ranking example and of the fuzzy example
main == <<"m", "a", "i", "n">>
main_rs == <<"m", "a", "i", "n", ".", "r", "s">>
domain_py == <<"d", "o", "m", "a", "i", "n", ".", "p", "y">>
m_a_i_n_txt == <<"m", "_", "a", "_", "i", "_", "n", ".", "t", "x", "t">>
mian_rs == <<"m", "i", "a", "n", ".", "r", "s">>
buffer_rs == <<"b", "u", "f", "f", "e", "r", ".", "r", "s">>
br == <<"b", "r">>

Indexed(names) == [i \in 1..Len(names) |-> IndexEntry(SearchFile(names[i], <<>>))]

ExampleIndexes ==
    { Indexed(<<main, main_rs, domain_py, m_a_i_n_txt, mian_rs, buffer_rs>>),
      Indexed(<<buffer_rs, mian_rs, m_a_i_n_txt, domain_py, main_rs, main>>),
      Indexed(<<domain_py, main, mian_rs, buffer_rs, m_a_i_n_txt, main_rs>>) }

\* one file more than the default limit of search_files, all matched by the
\* query "c" and all of extension C: the names c.C, cc.C, ccc.C, ...
ManyFiles ==
    Indexed([i \in 1..(DefaultMax + 1) |-> [k \in 1..i |-> "c"] \o <<".", "C">>])

\* the indexes a query is applied to, each in the order entries.iter()
\* visits it: one file of any name, one file with any symbols, up to
\* MaxEntries sample files in any order, the examples, and the many files
NameIndexes == {<<IndexEntry(SearchFile(n, <<>>))>> : n \in FileNames}

Indexes ==
    NameIndexes
    \cup {<<IndexEntry(SearchFile(<<"c", ".", "h">>, d))>> : d \in SymbolLists}
    \cup {[i \in 1..Len(fs) |-> IndexEntry(fs[i])] :
            fs \in {x \in UNION {[1..k -> SampleFiles] : k \in 0..MaxEntries} :
                      \A i, j \in 1..Len(x) : x[i] = x[j] => i = j}}
    \cup ExampleIndexes
    \cup {ManyFiles}

QueryStrs == Str(Chars, MaxQuery) \cup {main, br}
MaxChoices == {NoMax} \cup {Some(n) : n \in 0..2}

\* the limits tried on an index: all of them when it has several entries
Limits(ix) == IF Len(ix) > 1 THEN MaxChoices ELSE {NoMax}

search_files_apply(q, m) ==
    /\ matches = NoMatches
    /\ query_text' = q
    /\ max_results' = m
    /\ matches' = [op |-> "search_files", out |-> search_files(index, q, m)]
    /\ UNCHANGED <<indexer, file, built_entry, index, extension>>

search_symbols_apply(q, m) ==
    /\ matches = NoMatches
    /\ query_text' = q
    /\ max_results' = m
    /\ matches' = [op |-> "search_symbols", out |-> search_symbols(index, q, m)]
    /\ UNCHANGED <<indexer, file, built_entry, index, extension>>

get_files_by_extension_apply(x) ==
    /\ matches = NoMatches
    /\ extension' = x
    /\ matches' = [op |-> "get_files_by_extension",
                   out |-> get_files_by_extension(index, x)]
    /\ UNCHANGED <<indexer, file, built_entry, index, query_text, max_results>>

\* ------------------------------------------------------ the specification
\* the steps inside start_indexing, refresh_index and clear_index, with the
\* clock readings TA
MutateRun(p, TA) ==
    \/ start_indexing_exists(p)
    \/ start_indexing_write75(p)
    \/ start_indexing_locked75(p)
    \/ start_indexing_begin(p)
    \/ start_indexing_read98(p)
    \/ \E f \in Paths, ok \in BOOLEAN : start_indexing_build(p, f, ok)
    \/ \E f \in Paths : start_indexing_insert(p, f)
    \/ start_indexing_drop107(p)
    \/ start_indexing_write111(p)
    \/ start_indexing_locked111(p)
    \/ \E t \in TA : start_indexing_end(p, t)
    \/ start_indexing_ok(p)
    \/ refresh_index_root(p)
    \/ refresh_index_len(p)
    \/ clear_index_write320(p)
    \/ clear_index_locked320(p)
    \/ clear_index_clear(p)

\* the calls of start_indexing, with the roots RA and the ignore settings GA,
\* of refresh_index and of clear_index
MutateCall(p, RA, GA) ==
    \/ \E r \in RA, g \in GA : start_indexing_call(p, r, g)
    \/ refresh_index_call(p)
    \/ clear_index_call(p)

\* the steps inside the queries that iterate over the map
ScanRun(p) ==
    \/ query_read(p)
    \/ query_iter(p)
    \/ query_collect(p)

\* the steps inside get_index_stats (after query_read)
StatsRun(p) ==
    \/ get_index_stats_len(p)
    \/ get_index_stats_rest(p)

\* concurrent callers: two that rebuild root r1 under the ignore rules,
\* refresh and clear, and one that searches, in any interleaving
Run == \E p \in Procs : MutateRun(p, {MaxTime}) \/ ScanRun(p)

Next ==
    \/ \E p \in Procs : MutateCall(p, {"r1"}, {TRUE})
    \/ \E p \in Procs : query_call(p, "search_files")
    \/ Run

Spec == Init /\ [][Next]_vars

\* the same callers under a fair scheduler: a caller that is inside an
\* operation and can take a step takes one in the end (each caller is a
\* thread of its own, and rayon's workers run every job they are given)
Fair == \A p \in Procs : WF_vars(MutateRun(p, {MaxTime}) \/ ScanRun(p))

SpecFair == Spec /\ Fair

\* the concurrent callers again, rebuilding either root
NextRoots ==
    \/ \E p \in Procs : MutateCall(p, Roots, {TRUE})
    \/ \E p \in Procs : query_call(p, "search_files")
    \/ Run

SpecRoots == Init /\ [][NextRoots]_vars

\* one mutating caller and one querying caller, every argument of
\* start_indexing, every query but get_all_indexed_files (which scans as
\* search_files does), and directories that disappear
SeqProcs == {"m1", "q1"}

NextSeq ==
    \/ \E p \in SeqProcs : MutateCall(p, RootArgs, BOOLEAN)
    \/ \E p \in SeqProcs, o \in QueryOps \ {"get_all_indexed_files"} : query_call(p, o)
    \/ \E p \in SeqProcs : MutateRun(p, Times) \/ ScanRun(p) \/ StatsRun(p)
    \/ \E r \in Roots : RemoveRoot(r)

SpecSeq == Init /\ [][NextSeq]_vars

\* one caller that rebuilds r1, refreshes and clears, and one that calls
\* get_all_indexed_files again and again
NextTwice ==
    \/ \E p \in SeqProcs : MutateCall(p, {"r1"}, {FALSE})
    \/ \E p \in SeqProcs : query_call(p, "get_all_indexed_files")
    \/ \E p \in SeqProcs : MutateRun(p, {MaxTime}) \/ ScanRun(p)

SpecTwice == Init /\ [][NextTwice]_vars

\* create_index_entry on one file, for every file name of the bound
InitEntry ==
    /\ InitIndexer
    /\ file \in Files
    /\ built_entry = NoEntry
    /\ index = <<>>
    /\ query_text = <<>>
    /\ max_results = NoMax
    /\ extension = <<>>
    /\ matches = NoMatches

NextEntry == create_index_entry_apply

SpecEntry == InitEntry /\ [][NextEntry]_vars

\* create_index_entry on one source file, for every text of the bound
InitSymbols ==
    /\ InitIndexer
    /\ file \in SourceFiles
    /\ built_entry = NoEntry
    /\ index = <<>>
    /\ query_text = <<>>
    /\ max_results = NoMax
    /\ extension = <<>>
    /\ matches = NoMatches

SpecSymbols == InitSymbols /\ [][NextEntry]_vars

\* one query on one index, for the indexes, queries and limits of the bounds;
\* search_symbols is left out where no file can have a symbol
InitSearch ==
    /\ InitIndexer
    /\ file = NoFile
    /\ built_entry = NoEntry
    /\ index \in Indexes
    /\ query_text = <<>>
    /\ max_results = NoMax
    /\ extension = <<>>
    /\ matches = NoMatches

NextSearch ==
    \/ \E q \in QueryStrs, m \in Limits(index) : search_files_apply(q, m)
    \/ \E q \in QueryStrs, m \in Limits(index) :
          index \notin NameIndexes /\ search_symbols_apply(q, m)
    \/ \E x \in QueryStrs : get_files_by_extension_apply(x)

SpecSearch == InitSearch /\ [][NextSearch]_vars

\* ------------------------------------------------------------- the claims
\* C1: in every reachable state in which no start_indexing invocation is
\* between its step 2 and its step 5, the byte counter equals the sum of the
\* size fields of the entries in the map, under any interleaving of
\* start_indexing, refresh_index and clear_index
C1_CounterIsSumOfSizes ==
    (\A p \in Procs : ~MidBuild(p)) => total_size = SumSizes(entries)

\* a failing input of C1: both rebuilds have ended, and the counter holds
\* the one file twice
C1_Doubled ==
    /\ \A p \in Procs : ~MidBuild(p)
    /\ total_size > SumSizes(entries)

\* C2: start_indexing called with a root that does not exist returns the
\* NotFound error and has changed no field of the store (root, map, flag,
\* counter, timestamp) between the call and the return; the same holds for
\* refresh_index when the stored root no longer exists
C2_NotFoundChangesNothing ==
    [][\A p \in Procs :
         (pc[p] = "si_70" /\ pc'[p] # "si_70" /\ root_path[p] \notin exists)
            => /\ pc'[p] = "ret"
               /\ res'[p] = Result("NotFound", 0)
               /\ ~wrote[p]
               /\ store' = store]_vars

\* refresh_index has read the root of a non-empty index, the root is gone
\* from the disk, and the call is at the check of line 70
C2_RefreshOfMissingRoot ==
    \E p \in Procs :
        /\ pc[p] = "si_70"
        /\ op[p] = "refresh_index"
        /\ root_path[p] \notin exists
        /\ DOMAIN entries # {}
        /\ total_size > 0

\* C3: refresh_index fails with the Config error exactly when the root of the
\* store is unset when the call reads it, and then no field of the store is
\* changed and no rebuild is started; with a root set it goes into the
\* rebuild, and no later step of it returns Config
C3_ConfigIffRootUnset ==
    [][\A p \in Procs :
         /\ (pc[p] = "rf_334" /\ pc'[p] # "rf_334")
               => IF root = NoRoot
                  THEN /\ pc'[p] = "ret"
                       /\ res'[p] = Result("Config", 0)
                       /\ ~wrote[p]
                       /\ store' = store
                  ELSE /\ pc'[p] = "si_70"
                       /\ res'[p] = NoRes
         /\ (pc[p] # "rf_334" /\ pc'[p] = "ret" /\ pc[p] # "ret")
               => res'[p].tag # "Config"]_vars

\* refresh_index has returned Config, the last call of the history, and the
\* root of the store is unset
C3_ConfigReturned ==
    \E p \in Procs :
        /\ pc[p] = "ret"
        /\ res[p] = Result("Config", 0)
        /\ root = NoRoot
        /\ ncalls = MaxCalls

\* C4: a query invoked while a rebuild is in its per-file insertion phase can
\* acquire its read access at once, whatever the other callers do, also when
\* a clear_index or a second start_indexing waits for exclusive access
C4_QueryNeverWaits ==
    \A q \in Readers, b \in Mutators :
        (pc[q] = "q_read" /\ pc[b] = "si_100") => ENABLED query_read(q)

\* C5: no interleaving of search_files calls with rebuilds, clear_index and
\* refresh_index calls deadlocks (while some call has not returned, some call
\* can take a step), and the lock is never held by a writer together with a
\* reader or another writer
C5_NoDeadlockWriterAlone ==
    /\ (\E p \in Procs : InFlight(p)) => ENABLED Run
    /\ \A p \in Procs :
         pc[p] \in {"si_76", "si_112", "ci_321"} => writer = p /\ readers = {}
    /\ \A p \in Procs :
         pc[p] \in {"si_100", "q_iter", "q_190", "q_191"} => p \in readers

\* a search scans the map and a rebuild inserts, both under read guards,
\* while a clear_index waits for them with the writer bit set
C5_WriterWaitsForReaders ==
    \E a, b \in Mutators, q \in Readers :
        /\ pc[a] = "si_100"
        /\ pc[b] = "ci_320w"
        /\ pc[q] = "q_iter"
        /\ readers = {a, q}

\* C6: a query that runs during a rebuild returns entries built and inserted
\* by the rebuild in progress, the set it returns is a subset of the entries
\* that rebuild holds in the end, and what it has seen is never removed by a
\* clear while it goes on
C6_ConsistentPartialSnapshot ==
    /\ \A q \in Readers :
         (pc[q] = "q_iter" /\ \E b \in Mutators : MidBuild(b))
            => \A e \in seen[q] : \E b \in Mutators : MidBuild(b) /\ e.gen = gen[b]
    /\ \A b \in Mutators : pc[b] = "si_112" => shown[b] \subseteq Range(entries)
    /\ \A q \in Readers :
         pc[q] = "q_iter" => \A e \in seen[q] : e.path \in DOMAIN entries

\* C7: no entry is inserted into the map in a state where is_indexing is
\* false: the map changes, but for being emptied, only while the flag is true
C7_InsertOnlyWhileIndexing ==
    [][(entries' # entries /\ DOMAIN entries' # {}) => is_indexing]_vars

\* C8: after a start_indexing that no other mutating call overlaps, the map
\* holds one key for each enumerated file whose entry was built, and those
\* are its keys: total_files is the number of those files
C8_TotalFilesIsBuiltCount ==
    \A p \in Mutators :
        (pc[p] = "si_116" /\ op[p] = "start_indexing" /\ clean[p])
            => /\ Cardinality(DOMAIN entries) = Cardinality(built[p])
               /\ DOMAIN entries = {to_string_lossy(f) : f \in built[p]}

\* the bytes of the files a rebuild has built
RECURSIVE BuiltBytes(_)
BuiltBytes(fs) ==
    IF fs = {} THEN 0
    ELSE LET f == CHOOSE x \in fs : TRUE
         IN FileSize(f) + BuiltBytes(fs \ {f})

\* C9: a rebuild in which the entry builder failed for some or all files
\* still reaches step 5 and returns ok; the failed paths are absent from the
\* map and add nothing to the counter, the built paths are present
C9_FailedPathsAbsent ==
    \A p \in Mutators :
        (pc[p] = "si_116" /\ clean[p])
            => /\ is_indexing = FALSE
               /\ indexed_at \in Times
               /\ ENABLED start_indexing_ok(p)
               /\ \A f \in skipped[p] : to_string_lossy(f) \notin DOMAIN entries
               /\ \A f \in built[p] : to_string_lossy(f) \in DOMAIN entries
               /\ total_size = BuiltBytes(built[p])

\* C10: a rebuild replaces the whole index: when a start_indexing that no
\* other mutating call overlaps has done its step 5, after an earlier build,
\* the stored root is its root and every entry of the map was built by it
C10_RebuildReplacesIndex ==
    \A p \in Mutators :
        (pc[p] = "si_116" /\ clean[p])
            => /\ root = root_path[p]
               /\ \A e \in Range(entries) : e.gen = gen[p]

\* a rebuild of r2 has done its step 5; its step 2 removed the entries of a
\* build of r1, and the map holds what it built
C10_SecondRootBuilt ==
    \E p \in Mutators :
        /\ pc[p] = "si_116"
        /\ clean[p]
        /\ root = "r2"
        /\ "r1/a" \in dropped[p]
        /\ DOMAIN entries # {}

\* q is the start of n, q stands somewhere in n, the chars of q appear in n
\* in the same order
IsPrefix(q, n) == \E k \in 0..Len(n) : SubSeq(n, 1, k) = q
IsInfix(q, n) == \E a \in 1..(Len(n) + 1), b \in 0..Len(n) : SubSeq(n, a, b) = q
RECURSIVE IsSubsequence(_, _)
IsSubsequence(q, n) ==
    \/ q = <<>>
    \/ \E i \in 1..Len(n) :
         n[i] = q[1] /\ IsSubsequence(Tail(q), SubSeq(n, i + 1, Len(n)))

\* the score the ranking rule gives a lowercased name n for a lowercased
\* query q, in tenths; 0 when the entry is excluded
RankedScore(n, q) ==
    IF n = q THEN 10
    ELSE IF IsPrefix(q, n) THEN 9
    ELSE IF IsInfix(q, n) THEN 7
    ELSE IF IsSubsequence(q, n) THEN 5
    ELSE 0

\* C11: search_files gives each entry the score of the ranking rule on the
\* lowercased name and query (equal 1.0, else prefix 0.9, else substring
\* 0.7, else in-order subsequence 0.5, else excluded); for "main" the names
\* main, main.rs, domain.py, m_a_i_n.txt come back in that order and a name
\* with no in-order alignment does not (seen where the limit cuts nothing)
C11_ScoreByPrecedence ==
    (matches.op = "search_files" /\ max_results = NoMax /\ Len(index) <= 50) =>
        /\ \A i \in 1..Len(index) :
             LET e == index[i]
                 sc == RankedScore(to_lowercase(e.name), to_lowercase(query_text))
             IN IF sc = 0
                THEN \A j \in 1..Len(matches.out) : matches.out[j].path # e.path
                ELSE \E j \in 1..Len(matches.out) :
                       matches.out[j] = [path |-> e.path, name |-> e.name,
                                         score |-> sc, extension |-> e.extension]
        /\ (index \in ExampleIndexes /\ query_text = main)
              => [j \in 1..Len(matches.out) |-> matches.out[j].name]
                   = <<main, main_rs, domain_py, m_a_i_n_txt>>

\* search_files("main") has answered on the example index, which the map
\* iterates in another order than the ranking
C11_MainRanked ==
    /\ matches.op = "search_files"
    /\ max_results = NoMax
    /\ query_text = main
    /\ index \in ExampleIndexes
    /\ index[1].name = buffer_rs
    /\ Len(matches.out) = 4
    /\ matches.out[2].score = 9

\* the entries of the index that search_files and search_symbols are to
\* return for the lowercased query q, and the score each is to have
SymbolHits(e, q) == {k \in 1..Len(e.symbols) : IsInfix(q, to_lowercase(e.symbols[k]))}
FirstHit(e, q) == e.symbols[CHOOSE k \in SymbolHits(e, q) : \A l \in SymbolHits(e, q) : k <= l]
DueScore(o, e, q) ==
    IF o = "search_files" THEN RankedScore(to_lowercase(e.name), q)
    ELSE IF SymbolHits(e, q) = {} THEN 0
    ELSE IF to_lowercase(FirstHit(e, q)) = q THEN 10 ELSE 7
Due(o, q) == {i \in 1..Len(index) : DueScore(o, index[i], q) > 0}
Min(a, b) == IF a <= b THEN a ELSE b

\* C12: with L the limit of a search_files or search_symbols call (50 when
\* none is given), the result is in non-increasing score order, its length
\* is the smaller of L and the number of matching entries, no matching entry
\* left out has a strictly higher score than a returned one, and a limit of
\* 0 gives the empty result
C12_SortedAndTruncated ==
    (matches.op \in {"search_files", "search_symbols"}) =>
        LET out == matches.out
            L == IF max_results.some THEN max_results.val ELSE 50
            q == to_lowercase(query_text)
            due == Due(matches.op, q)
            left == {i \in due : \A j \in 1..Len(out) : out[j].path # index[i].path}
        IN /\ \A i, j \in 1..Len(out) : i < j => out[i].score >= out[j].score
           /\ Len(out) = Min(L, Cardinality(due))
           /\ \A i \in left, j \in 1..Len(out) :
                 DueScore(matches.op, index[i], q) <= out[j].score
           /\ (max_results = Some(0)) => out = <<>>

\* a search with limit 1 has left out the first entry the map iterates,
\* which matches with a lower score than the second
C12_LimitCutsLowest ==
    /\ matches.op = "search_files"
    /\ max_results = Some(1)
    /\ Len(index) = 2
    /\ Due("search_files", to_lowercase(query_text)) = {1, 2}
    /\ Len(matches.out) = 1
    /\ matches.out[1].path = index[2].path

\* C13: fuzzy_match(text, pattern) is true exactly when the chars of pattern
\* appear in text in the same order, whatever lies between them (here for
\* every name and query of a search, taken both ways round); a name that
\* search_files keeps only for that reason has score 0.5 whatever the gaps,
\* as "buffer.rs" has for the query "br"
C13_FuzzyIsSubsequence ==
    (matches.op = "search_files") =>
        \A i \in 1..Len(index) :
            LET n == index[i].name
                q == query_text
                nl == to_lowercase(n)
                ql == to_lowercase(q)
            IN /\ fuzzy_match(n, q) <=> IsSubsequence(q, n)
               /\ fuzzy_match(q, n) <=> IsSubsequence(n, q)
               /\ fuzzy_match(nl, ql) <=> IsSubsequence(ql, nl)
               /\ (max_results = NoMax /\ Len(index) <= 50
                      /\ IsSubsequence(ql, nl) /\ ~IsInfix(ql, nl))
                     => \E j \in 1..Len(matches.out) :
                           /\ matches.out[j].path = index[i].path
                           /\ matches.out[j].score = 5
               /\ (max_results = NoMax /\ q = br /\ n = buffer_rs)
                     => \E j \in 1..Len(matches.out) :
                           /\ matches.out[j].name = buffer_rs
                           /\ matches.out[j].score = 5

\* search_files("br") has answered on an index that holds buffer.rs, and
\* the match is there with score 0.5 although four chars lie between b and r
C13_BufferMatched ==
    /\ matches.op = "search_files"
    /\ query_text = br
    /\ \E i \in 1..Len(index) : index[i].name = buffer_rs
    /\ ~contains(buffer_rs, br)
    /\ \E j \in 1..Len(matches.out) :
          matches.out[j].name = buffer_rs /\ matches.out[j].score = 5

\* C14: search_symbols returns at most one match per entry; an entry has a
\* match iff some symbol of it contains the query when both are lowercased;
\* the match carries the first such symbol in extraction order, with score
\* 1.0 iff that symbol equals the query up to case and 0.7 otherwise, also
\* when a later symbol of the entry equals the query
C14_FirstContainingSymbol ==
    (matches.op = "search_symbols" /\ max_results = NoMax /\ Len(index) <= 50) =>
        LET out == matches.out
            q == to_lowercase(query_text)
        IN /\ \A j, k \in 1..Len(out) : out[j].path = out[k].path => j = k
           /\ \A i \in 1..Len(index) :
                 LET e == index[i]
                     hits == {k \in 1..Len(e.symbols) :
                                IsInfix(q, to_lowercase(e.symbols[k]))}
                 IN IF hits = {}
                    THEN \A j \in 1..Len(out) : out[j].path # e.path
                    ELSE \E j \in 1..Len(out), k \in hits :
                           /\ \A l \in hits : k <= l
                           /\ out[j].path = e.path
                           /\ out[j].name = e.symbols[k]
                           /\ out[j].extension = e.extension
                           /\ (out[j].score = 10) <=> (to_lowercase(e.symbols[k]) = q)
                           /\ (out[j].score = 7) <=> (to_lowercase(e.symbols[k]) # q)

\* search_symbols("c") has answered for a file whose symbols are ch and C
\* in that order: the match is ch with score 0.7, though C equals the query
C14_LaterExactIgnored ==
    /\ matches.op = "search_symbols"
    /\ query_text = <<"c">>
    /\ \E i \in 1..Len(index) : index[i].symbols = << <<"c", "h">>, <<"C">> >>
    /\ \E j \in 1..Len(matches.out) :
          matches.out[j].name = <<"c", "h">> /\ matches.out[j].score = 7

\* C15: get_files_by_extension(x) returns exactly the entries that have an
\* extension whose lowercase form is the lowercase form of x, each once and
\* however many they are; an entry with no extension is never returned,
\* not for the empty x either
C15_ExactlySameExtension ==
    (matches.op = "get_files_by_extension") =>
        LET out == matches.out
            x == to_lowercase(extension)
            same == {i \in 1..Len(index) :
                       /\ index[i].extension.some
                       /\ to_lowercase(index[i].extension.val) = x}
        IN /\ {out[j] : j \in 1..Len(out)} = {index[i] : i \in same}
           /\ Len(out) = Cardinality(same)
           /\ \A j \in 1..Len(out) : out[j].extension.some

\* get_files_by_extension("c") has returned all 51 files of an index whose
\* files have the extension C
C15_AllOfThem ==
    /\ matches.op = "get_files_by_extension"
    /\ extension = <<"c">>
    /\ Len(index) = 51
    /\ index[1].extension = Some(<<"C">>)
    /\ Len(matches.out) = 51

\* a step of a query: its call, its INDEX.read(), a step of its iteration
\* or its return
QueryStep(p) ==
    \/ pc[p] \in {"idle", "ret"} /\ pc'[p] = "q_read"
    \/ pc[p] \in {"q_read", "q_iter", "q_190", "q_191"}
          /\ (pc'[p] # pc[p] \/ pos'[p] # pos[p])

\* get_all_indexed_files returns to p, which has an earlier result of it
SecondReturn(p) ==
    /\ Collected(p)
    /\ pc'[p] = "ret"
    /\ op[p] = "get_all_indexed_files"
    /\ prev[p].some

\* C16, as stated: a get_all_indexed_files call returns what the call before
\* it returned when no rebuild (start_indexing, refresh_index) was started or
\* running from the start of the first to the end of the second, and no step
\* of a query changes a field of the store
C16_SameUnlessRebuilt ==
    [][\A p \in Procs :
         /\ (SecondReturn(p) /\ since_prev[p] # "rebuild") => seen[p] = prev[p].val
         /\ QueryStep(p) => store' = store]_vars

\* C16, amended: the same when neither a rebuild nor a clear_index was
\* started or running from the start of the first call to the end of the
\* second
C16_SameUnlessMutated ==
    [][\A p \in Procs :
         /\ (SecondReturn(p) /\ since_prev[p] = "nothing") => seen[p] = prev[p].val
         /\ QueryStep(p) => store' = store]_vars

\* get_all_indexed_files is about to return the entries of a built index
\* for the second time, with no mutating call since the first call began
C16_AskedTwice ==
    \E p \in Procs :
        /\ Collected(p)
        /\ op[p] = "get_all_indexed_files"
        /\ prev[p].some
        /\ since_prev[p] = "nothing"
        /\ seen[p] # {}
        /\ seen[p] = Range(entries)

\* the places of the dots of a name, and what follows the dot at place i
Dots(n) == {i \in 1..Len(n) : n[i] = "."}
After(n, i) == SubSeq(n, i + 1, Len(n))
IsLastDot(n, i) == i \in Dots(n) /\ \A k \in Dots(n) : k <= i

\* C17, as stated: the extension of a built entry is, up to case, what
\* follows the last '.' of its name, and it is absent exactly when the name
\* has no '.'
C17_SuffixAfterLastDot ==
    (built_entry.tag = "Ok") =>
        LET e == built_entry.entry
        IN /\ e.extension.some <=> Dots(e.name) # {}
           /\ \A i \in Dots(e.name) :
                 IsLastDot(e.name, i)
                    => to_lowercase(e.extension.val) = to_lowercase(After(e.name, i))

\* C17, amended: the extension is absent exactly when the name has no '.'
\* or its last '.' is its first char; otherwise it
\* is what follows the last '.' of the name (nothing, for a name that ends
\* with '.')
C17_SuffixUnlessLeadingDot ==
    (built_entry.tag = "Ok") =>
        LET e == built_entry.entry
        IN /\ e.extension.some <=> \E i \in Dots(e.name) : i > 1
           /\ \A i \in Dots(e.name) :
                 (IsLastDot(e.name, i) /\ i > 1) => e.extension = Some(After(e.name, i))

\* an entry has been built for a name that begins with its only '.', and
\* it has no extension
C17_DotNames ==
    /\ built_entry.tag = "Ok"
    /\ built_entry.entry.name = <<".", "c">>
    /\ ~built_entry.entry.extension.some

\* C18: whenever clear_index returns, it returns ok, the map is empty and
\* the root is unset, and the is_indexing flag is what it was, raised or
\* not, with or without a rebuild in flight
C18_ClearKeepsFlag ==
    [][\A p \in Procs :
         (op[p] = "clear_index" /\ pc[p] # "ret" /\ pc'[p] = "ret")
            => /\ res'[p].tag = "Ok"
               /\ DOMAIN entries' = {}
               /\ root' = NoRoot
               /\ is_indexing' = is_indexing]_vars

\* clear_index has returned while a rebuild is between its step 2 and its
\* step 5: the root is unset, the map is empty and the flag is still raised
C18_ClearedMidBuild ==
    \E p, b \in Mutators :
        /\ pc[p] = "ret"
        /\ res[p].tag = "Ok"
        /\ MidBuild(b)
        /\ root = NoRoot
        /\ DOMAIN entries = {}
        /\ is_indexing

\* C19: a refresh_index that no other mutating call overlaps and that
\* returns ok leaves the root it found stored, and returns the number of
\* entries the map holds when it returns; the total_files of a
\* get_index_stats is the number of entries of the map it reads, the same
\* number when it reads the map as the refresh left it
C19_RefreshCountsEntries ==
    [][/\ \A p \in Mutators :
            (op[p] = "refresh_index" /\ pc[p] = "rf_345" /\ pc'[p] = "ret" /\ clean[p])
               => /\ res'[p].tag = "Ok"
                  /\ res'[p].val = Cardinality(DOMAIN entries')
                  /\ root' = root_path[p]
                  /\ root' # NoRoot
       /\ \A q \in Readers :
            (op[q] = "get_index_stats" /\ pc[q] = "q_190" /\ pc'[q] = "q_191")
               => IndexStats(q)'.total_files = Cardinality(DOMAIN entries)]_vars

\* a refresh_index has returned the number of entries of a map that is
\* not empty, with the root still set
C19_Refreshed ==
    \E p \in Mutators :
        /\ pc[p] = "ret"
        /\ res[p].tag = "Ok"
        /\ res[p].val > 0
        /\ res[p].val = Cardinality(DOMAIN entries)
        /\ root \in Roots

\* C20: a file whose metadata can be read always gets its entry, with its
\* name, extension, size and modified time; the symbols of the entry are
\* empty when the extension, lowercased, is not a code extension (or is
\* absent) or when the contents cannot be read as text; only a failing
\* fs::metadata keeps an entry from being built
C20_NoSymbolsStillBuilt ==
    (built_entry # NoEntry) =>
        /\ built_entry.tag = "Ok" <=> file.metadata
        /\ file.metadata =>
              LET e == built_entry.entry
                  ext == IF e.extension.some THEN to_lowercase(e.extension.val) ELSE <<>>
              IN /\ e.name = lossy(file.name)
                 /\ e.size = file.len
                 /\ e.modified = (IF file.mtime.ok THEN file.mtime.secs ELSE 0)
                 /\ e.extension.some => IsLastDot(e.name, Len(e.name) - Len(e.extension.val))
                 /\ (ext \notin code_extensions \/ ~file.text) => e.symbols = <<>>
                 /\ (ext \in code_extensions /\ file.text) => e.symbols = file.defs

\* an entry has been built, with no symbols, for a readable file that holds
\* definitions and whose extension is not a code extension
C20_BuiltWithoutSymbols ==
    /\ built_entry.tag = "Ok"
    /\ file.defs # <<>>
    /\ file.text
    /\ built_entry.entry.extension.some
    /\ to_lowercase(built_entry.entry.extension.val) \notin code_extensions
    /\ built_entry.entry.symbols = <<>>
    /\ built_entry.entry.size = file.len

\* the lines of a text, the words of a line, and the name a line declares
\* for pattern k: the line begins with the keyword, behind the optional
\* words or some of them, and the name is the word behind the keyword
RECURSIVE LinesOf(_)
LinesOf(t) ==
    IF \A i \in 1..Len(t) : t[i] # "nl" THEN <<t>>
    ELSE LET n == CHOOSE i \in 1..Len(t) : t[i] = "nl" /\ \A m \in 1..(i - 1) : t[m] # "nl"
         IN <<SubSeq(t, 1, n - 1)>> \o LinesOf(SubSeq(t, n + 1, Len(t)))
Words(l) == SelectSeq(l, LAMBDA x : x \notin {"sp", "nl"})
Heads(k) ==
    CASE k = 1 -> {<<"function">>, <<"export", "function">>, <<"async", "function">>,
                   <<"export", "async", "function">>}
      [] k = 2 -> {<<"class">>, <<"export", "class">>}
      [] k = 3 -> {<<"def">>}
      [] k = 4 -> {<<"class">>}
      [] k = 5 -> {<<"fn">>}
      [] k = 6 -> {<<"struct">>}
      [] k = 7 -> {<<"impl">>}
Declares(k, l) ==
    /\ l # <<>>
    /\ l[1] \notin {"sp", "nl"}
    /\ \E h \in Heads(k) : Len(Words(l)) > Len(h) /\ SubSeq(Words(l), 1, Len(h)) = h
DeclaredName(k, l) ==
    Words(l)[1 + Len(CHOOSE h \in Heads(k) :
                        Len(Words(l)) > Len(h) /\ SubSeq(Words(l), 1, Len(h)) = h)]
RECURSIVE NamesFor(_, _)
NamesFor(k, ls) ==
    IF ls = <<>> THEN <<>>
    ELSE (IF Declares(k, ls[1]) THEN <<DeclaredName(k, ls[1])>> ELSE <<>>)
            \o NamesFor(k, Tail(ls))
RECURSIVE NamesFrom(_, _)
NamesFrom(k, ls) == IF k > 7 THEN <<>> ELSE NamesFor(k, ls) \o NamesFrom(k + 1, ls)

\* every line that has a keyword has a word behind it
Plain(t) == \A i \in 1..Len(LinesOf(t)) : LinesOf(t)[i] # <<"function">>

\* the symbols of a built source file are the names its lines declare for
\* the first pattern in the order of the lines, then those for the second,
\* and so on, a name once for each pattern that captures it
InPatternOrder ==
    (built_entry.tag = "Ok" /\ Plain(file.content))
        => built_entry.entry.symbols = NamesFrom(1, LinesOf(file.content))

\* a function declaration of foo: a function keyword of one of the scanned
\* languages, white space, foo
DeclaresFunction(t, name) ==
    \E i \in 1..Len(t), j \in 1..Len(t) :
        /\ t[i] \in {"function", "def", "fn", "func"}
        /\ i < j
        /\ \A m \in (i + 1)..(j - 1) : t[m] \in {"sp", "nl"}
        /\ j > i + 1
        /\ t[j] = name

\* C21: the symbols of an allow-listed source file are the captures of the
\* patterns, pattern by pattern and in text order within a pattern, with
\* duplicates kept; and a file that holds a function declaration named foo,
\* wherever and however it is written, has foo among its symbols
C21_EveryFunctionFound ==
    /\ InPatternOrder
    /\ (built_entry.tag = "Ok" /\ DeclaresFunction(file.content, "foo"))
          => \E i \in 1..Len(built_entry.entry.symbols) :
                built_entry.entry.symbols[i] = "foo"

\* the entry of a source file whose only line is "pub fn foo" has been
\* built, and it has no symbol
C21_DeclarationMissed ==
    /\ built_entry.tag = "Ok"
    /\ file.content = <<"pub", "sp", "fn", "sp", "foo">>
    /\ built_entry.entry.symbols = <<>>

\* a caller is inside a critical section of INDEX.write(), a query holds the
\* read guard under which it reads the store
InWriteSection(p) == pc[p] \in {"si_76", "si_112", "ci_321"}
Observing(q) == pc[q] \in {"q_iter", "q_190", "q_191"}
NoneObservesAWrite ==
    /\ \A q \in Procs : Observing(q) => q \in readers
    /\ \A p \in Procs : InWriteSection(p) => (writer = p /\ readers = {})

\* C22: step 2 of a rebuild is one step for every query: its four writes
\* are made together, under the write guard, at a time when no query holds
\* the read guard under which it reads the store, and they leave the new
\* root, an empty map, the raised flag and a counter of 0
C22_StepTwoAtomic ==
    [][/\ NoneObservesAWrite
       /\ NoneObservesAWrite'
       /\ \A p \in Mutators :
            (pc[p] = "si_76" /\ pc'[p] # "si_76")
               => /\ \A q \in Procs : ~Observing(q) /\ ~Observing(q)'
                  /\ root' = root_path[p]
                  /\ DOMAIN entries' = {}
                  /\ is_indexing'
                  /\ total_size' = 0]_vars

\* step 2 of a rebuild has been made on a built index while a query was
\* waiting to read: the query will find the new root, no entry, the raised
\* flag and the counter at 0
C22_SteppedBeforeQuery ==
    \E p \in Mutators, q \in Readers :
        /\ pc[p] = "si_83"
        /\ dropped[p] # {}
        /\ pc[q] = "q_read"
        /\ root = root_path[p]
        /\ DOMAIN entries = {}
        /\ is_indexing
        /\ total_size = 0

\* a step of caller p, and the paths its rebuild has enumerated
StepOf(p) == pc'[p] # pc[p] \/ todo'[p] # todo[p] \/ mid'[p] # mid[p]
Enumerated(p) == todo[p] \cup mid[p] \cup built[p] \cup skipped[p]

\* C23: within one rebuild, no field of the store is written before the
\* root-exists check has passed (and none when it fails); an entry is
\* inserted only after step 2 and after the enumeration, which no insert
\* extends; the flag is lowered and the build stamped only when every
\* enumerated path has been inserted or skipped
C23_StepsInOrder ==
    [][\A p \in Mutators :
         (StepOf(p) /\ op[p] \in {"start_indexing", "refresh_index"}) =>
            /\ (store' # store) => pc[p] \in {"si_76", "si_100", "si_112"}
            /\ (pc[p] = "si_70" /\ pc'[p] = "ret") => (store' = store /\ ~wrote[p])
            /\ (pc[p] \in {"si_70", "si_75", "si_75w", "si_76"}) => ~wrote[p]
            /\ (entries' # entries /\ pc[p] # "si_76")
                  => /\ pc[p] = "si_100"
                     /\ wrote[p]
                     /\ Enumerated(p)' = Enumerated(p)
                     /\ mid'[p] # mid[p]
            /\ ((is_indexing /\ ~is_indexing') \/ indexed_at' # indexed_at)
                  => /\ pc[p] = "si_112"
                     /\ todo[p] = {}
                     /\ mid[p] = {}
                     /\ Enumerated(p) = built[p] \cup skipped[p]]_vars

\* a rebuild has done its step 5 after it inserted what it enumerated
C23_AllStepsDone ==
    \E p \in Mutators :
        /\ pc[p] = "si_116"
        /\ built[p] # {}
        /\ todo[p] = {}
        /\ mid[p] = {}
        /\ ~is_indexing
        /\ indexed_at \in Times

\* C24: under fair scheduling every call of start_indexing, refresh_index,
\* clear_index and of a query returns in the end, whatever the other callers
\* do; and whenever no rebuild is in flight the is_indexing flag is down
C24_EveryCallReturns ==
    /\ \A p \in Procs : InFlight(p) ~> ~InFlight(p)
    /\ [](( \A p \in Procs : ~(InFlight(p) /\ Kind(op[p]) = "rebuild")) => ~is_indexing)

\* a query and a clear_index wait for the lock while a rebuild inserts
C24_AllWaiting ==
    \E p, b \in Mutators, q \in Readers :
        /\ pc[b] = "si_100"
        /\ pc[p] = "ci_320w"
        /\ pc[q] = "q_read"

\* C25: rebuilds do not exclude each other: a start_indexing call is taken
\* whatever else is in flight and no result is a rejection; a rebuild that
\* has done its step 2 is let into its insert phase while another is in
\* its own (unless a writer waits), and two rebuilds in their insert phases
\* can each go on building and inserting
C25_RebuildsOverlap ==
    /\ \A p \in Procs : res[p].tag \in {"none", "Ok", "NotFound", "Config"}
    /\ \A p \in Mutators :
          (pc[p] \in {"idle", "ret"} /\ ncalls < MaxCalls)
             => ENABLED start_indexing_call(p, "r1", TRUE)
    /\ \A p, q \in Mutators :
          (p # q /\ pc[p] = "si_100" /\ pc[q] = "si_83" /\ writer = NoProc)
             => ENABLED start_indexing_read98(q)
    /\ \A p, q \in Mutators :
          (p # q /\ pc[p] = "si_100" /\ pc[q] = "si_100")
             => /\ \A f \in todo[p] : ENABLED start_indexing_build(p, f, TRUE)
                /\ \A f \in mid[p] : ENABLED start_indexing_insert(p, f)

\* two rebuilds are between their step 2 and their step 5, each with a
\* worker that has built an entry and is about to insert it
C25_BothInserting ==
    \E p, q \in Mutators :
        /\ p # q
        /\ pc[p] = "si_100" /\ MidBuild(p) /\ mid[p] # {}
        /\ pc[q] = "si_100" /\ MidBuild(q) /\ mid[q] # {}

\* a worker of p puts the entry of f into the map in this step
Inserts(p, f) == pc[p] = "si_100" /\ f \in mid[p] /\ mid'[p] = mid[p] \ {f}

C27_EntriesImmutable ==
    [][/\ \A k \in DOMAIN entries \cap DOMAIN entries' :
            (entries'[k] # entries[k])
               => \E p \in Mutators, f \in Paths :
                     /\ Inserts(p, f)
                     /\ to_string_lossy(f) = k
                     /\ entries'[k] = create_index_entry(f, gen[p])
       /\ (DOMAIN entries \ DOMAIN entries' # {})
            => /\ DOMAIN entries' = {}
               /\ \E p \in Mutators : pc[p] \in {"si_76", "ci_321"} /\ pc'[p] # pc[p]]_vars

\* a query is scanning the map while the rebuild that inserted the entry
\* it has seen is in its insert phase: the entry is in the map as that
\* rebuild built it
C27_SeenAsBuilt ==
    \E q \in Readers, p \in Mutators :
        /\ pc[q] = "q_iter"
        /\ pc[p] = "si_100"
        /\ \E e \in seen[q] :
              /\ e \in Range(entries)
              /\ e.file \in built[p]
              /\ e = create_index_entry(e.file, gen[p])

\* C28: every entry of the map is stored under its own path field, and the
\* paths of the entries a scan has taken are keys of the map for as long as
\* the scan goes on
C28_KeyIsPath ==
    /\ \A k \in DOMAIN entries : entries[k].path = k
    /\ \A q \in Procs :
          (pc[q] = "q_iter") => \A e \in seen[q] : e.path \in DOMAIN entries

\* a scan has taken the entry of a file of r2, whose path is not UTF-8: the
\* key and the path field are the same lossy string
C28_LossyKeySeen ==
    \E q \in Readers :
        /\ pc[q] = "q_iter"
        /\ \E e \in seen[q] :
              /\ e.file \in {"r2/x", "r2/y"}
              /\ e.path = "r2/?"
              /\ "r2/?" \in DOMAIN entries

\* no start_indexing and no refresh_index is in flight
NoRebuildInFlight == \A p \in Procs : ~(InFlight(p) /\ Kind(op[p]) = "rebuild")

\* C29: whenever no rebuild is in flight, a store whose root is unset has an
\* empty map, after any interleaving of start_indexing, refresh_index and
\* clear_index
C29_UnsetRootEmptyMap ==
    (NoRebuildInFlight /\ root = NoRoot) => DOMAIN entries = {}

\* every call has returned, a clear_index among them that ran during a
\* rebuild: the root is unset and the map holds the entry the rebuild
\* inserted afterwards
C29_EntriesWithoutRoot ==
    /\ \A p \in Procs : ~InFlight(p)
    /\ root = NoRoot
    /\ DOMAIN entries # {}
    /\ ~is_indexing

\* C30: whenever no rebuild is in flight, every entry of the map was
\* enumerated under the currently stored root: none was built by a rebuild
\* of a different root
C30_EntriesUnderStoredRoot ==
    NoRebuildInFlight =>
        \A k \in DOMAIN entries : entries[k].file \in FilesUnder(root)

\* every call has returned, two overlapping rebuilds of r1 and of r2 among
\* them: the stored root is r2 and the map holds a file of r1
C30_ForeignEntry ==
    /\ \A p \in Procs : ~InFlight(p)
    /\ root = "r2"
    /\ \E k \in DOMAIN entries : entries[k].file \in FilesUnder("r1")

\* the caller is inside the start_indexing that refresh_index entered
Refreshing(p) ==
    /\ op[p] = "refresh_index"
    /\ pc[p] \in {"si_70", "si_75", "si_75w", "si_76", "si_83", "si_100",
                  "si_111", "si_111w", "si_112", "si_116"}

AloneInPerFilePhase(p) == pc[p] = "si_100" /\ clean[p]

\* C32: during the per-file phase of a rebuild that no other mutating call
\* overlaps, the byte counter is never smaller than the sum of the sizes of
\* the entries in the map, so a get_index_stats that reads the counter then
\* never reads less than that sum
C32_CounterCoversEntries ==
    \A p \in Procs :
        AloneInPerFilePhase(p) =>
            /\ total_size >= SumSizes(entries)
            /\ \A q \in Procs :
                  pc[q] = "q_191" => IndexStats(q).total_size >= SumSizes(entries)

\* a get_index_stats is about to read the counter while a worker of the
\* rebuild has added a file's size and not yet inserted its entry: the
\* counter is greater than the sum over the entries in the map
C32_StatsSeesMore ==
    \E p, q \in Procs :
        /\ AloneInPerFilePhase(p)
        /\ mid[p] # {}
        /\ pc[q] = "q_191"
        /\ IndexStats(q).total_size > SumSizes(entries)

\* the caller takes step 5 of a rebuild (lines 112-113), or runs the body of
\* clear_index (lines 321-324)
StepFive(p) == pc[p] = "si_112" /\ pc'[p] = "si_116"
Clears(p) == pc[p] = "ci_321" /\ pc'[p] = "ret"

\* C33: indexed_at is 0 at process start and changes only at step 5 of a
\* rebuild and at clear_index: every other step, step 2 of a later rebuild
\* among them, keeps the value it had, and clear_index sets it to 0 together
\* with the byte counter
C33_StampChangesAtStepFiveOrClear ==
    /\ indexed_at = 0
    /\ [][ /\ indexed_at' # indexed_at =>
                \E p \in Procs : StepFive(p) \/ Clears(p)
           /\ \A p \in Procs :
                 Clears(p) => indexed_at' = 0 /\ total_size' = 0 ]_vars

\* a later rebuild, overlapped by no other mutating call, is in its per-file
\* phase with is_indexing raised, and the stamp is still the one the
\* previous build left
C33_OldStampDuringRebuild ==
    \E p \in Procs :
        /\ pc[p] = "si_100"
        /\ clean[p]
        /\ is_indexing
        /\ indexed_at \in Times

\* the entries of the index that have at least one symbol, and the limit of
\* the call
WithSymbols == {i \in 1..Len(index) : index[i].symbols # <<>>}
Limit == IF max_results.some THEN max_results.val ELSE 50
EmptyQuery(o) == matches.op = o /\ query_text = <<>>

\* search_files("") returns entries of the index only, each with its name
\* and score 0.9, as many as the limit allows
AllFilesMatch ==
    EmptyQuery("search_files") =>
        /\ Len(matches.out) = Min(Limit, Len(index))
        /\ \A j \in 1..Len(matches.out) : \E i \in 1..Len(index) :
              matches.out[j] = [path |-> index[i].path, name |-> index[i].name,
                                score |-> 9, extension |-> index[i].extension]
        /\ \A j, k \in 1..Len(matches.out) :
              matches.out[j].path = matches.out[k].path => j = k

\* C34 as stated: search_files("") matches every entry with score 0.9, as
\* many as the limit allows, and search_symbols("") returns one match for
\* every entry that has at least one symbol
C34_EverySymbolEntryMatched ==
    /\ AllFilesMatch
    /\ EmptyQuery("search_symbols") =>
          \A i \in WithSymbols : \E j \in 1..Len(matches.out) :
              matches.out[j].path = index[i].path

\* C34, amended: search_files("") matches every entry with score 0.9, as
\* many as the limit allows; search_symbols("") matches every entry that
\* has at least one symbol, by its first symbol and with score 0.7, and
\* returns one match for each of them up to the limit: its result has
\* min(limit, number of entries with a symbol) matches, of different entries
C34_EmptyQueryUpToLimit ==
    /\ AllFilesMatch
    /\ EmptyQuery("search_symbols") =>
          /\ Len(matches.out) = Min(Limit, Cardinality(WithSymbols))
          /\ \A j \in 1..Len(matches.out) : \E i \in WithSymbols :
                matches.out[j] = [path |-> index[i].path,
                                  name |-> index[i].symbols[1],
                                  score |-> 7, extension |-> index[i].extension]
          /\ \A j, k \in 1..Len(matches.out) :
                matches.out[j].path = matches.out[k].path => j = k

\* search_symbols("") with limit 1 has answered on an index of two files
\* that both have symbols: one of them is in the result and the other is not
C34_SymbolEntryCutOff ==
    /\ EmptyQuery("search_symbols")
    /\ max_results = Some(1)
    /\ Len(index) = 2
    /\ WithSymbols = {1, 2}
    /\ Len(matches.out) = 1
    /\ \E i \in WithSymbols : \A j \in 1..Len(matches.out) :
          matches.out[j].path # index[i].path

\* the caller is inside a clear of the map: step 2 of a rebuild (lines
\* 76-80) or the body of clear_index (lines 321-324), write guard in hand
ClearExecuting(q) == pc[q] \in {"si_76", "ci_321"}

\* C35: a rebuilding caller holds the lock of the store in shared mode for
\* its whole per-file phase, so whenever a worker of a rebuild is between
\* its counter add and its map insert no clear of the map is executing,
\* neither that of clear_index nor that of another rebuild's step 2, and no
\* caller holds the write guard
C35_NoClearDuringInserts ==
    \A p \in Procs :
        /\ pc[p] = "si_100" => p \in readers
        /\ mid[p] # {} =>
              /\ pc[p] = "si_100"
              /\ \A q \in Procs : ~ClearExecuting(q)
              /\ \A q \in Procs : writer = q => pc[q] \in {"si_75w", "si_111w", "ci_320w"}

\* a worker of a rebuild is between its counter add and its insert while
\* another caller's clear_index or step 2 has asked for the write guard and
\* waits for the rebuild's read guard
C35_ClearKeptWaiting ==
    \E p, q \in Procs :
        /\ mid[p] # {}
        /\ p \in readers
        /\ writer = q
        /\ pc[q] \in {"si_75w", "ci_320w"}

====
